---------------------------- MODULE Spec2Model ----------------------------
(***************************************************************************)
(* Model of the code clone detection tool (src/main.py): the text          *)
(* normalizer, the similarity scorer, the classifier, the pairwise         *)
(* detector run by background threads, and the process-wide state they     *)
(* share (result list, counters, sensitivity slider, applied sensitivity). *)
(*                                                                         *)
(* Text is a sequence of one-character strings.  A similarity ratio is the *)
(* exact fraction <<numerator, denominator>> of the float the code         *)
(* computes; for the short lines of the model the float comparisons of the *)
(* code order the same way as the exact fractions.                         *)
(***************************************************************************)
EXTENDS Integers, Sequences, FiniteSets, TLC

(***************************************************************************)
(* Characters.                                                             *)
(***************************************************************************)
NL == "\n"
CR == "\r"
SP == " "

\* Characters matched by \s and removed by str.strip().
Whitespace == {SP, NL, CR, "\t"}

\* Line boundaries of str.splitlines().
LineBreaks == {NL, CR}

Min(S) == CHOOSE x \in S : \A y \in S : x <= y

(***************************************************************************)
(* clean_code: re.sub with the MULTILINE pattern, then splitlines, drop    *)
(* blank lines, join with "\n".                                            *)
(***************************************************************************)
\* not s.strip(): every character is whitespace
IsBlank(s) == \A k \in 1..Len(s) : s[k] \in Whitespace

StartsWith(s, k, w) ==
    /\ k + Len(w) - 1 <= Len(s)
    /\ \A n \in 1..Len(w) : s[k + n - 1] = w[n]

\* The alternatives of the pattern: #.* | from .* | import .*
MarkerAt(s, k) ==
    \/ StartsWith(s, k, <<"#">>)
    \/ StartsWith(s, k, <<"f", "r", "o", "m", SP>>)
    \/ StartsWith(s, k, <<"i", "m", "p", "o", "r", "t", SP>>)

\* First position at or after p that is not whitespace (Len(s)+1 if none).
FirstNonSpace(s, p) ==
    Min({k \in p..Len(s) : s[k] \notin Whitespace} \cup {Len(s) + 1})

\* Where "." stops: the next "\n" at or after k (Len(s)+1 if none).
EndOfLine(s, k) ==
    Min({m \in k..Len(s) : s[m] = NL} \cup {Len(s) + 1})

\* "^" under MULTILINE: start of text or just after a "\n".
AtLineStart(s, p) == p = 1 \/ s[p - 1] = NL

\* The pattern matches at p: ^ \s* (marker) .* $
MatchesAt(s, p) ==
    /\ AtLineStart(s, p)
    /\ FirstNonSpace(s, p) <= Len(s)
    /\ MarkerAt(s, FirstNonSpace(s, p))

RECURSIVE ReSubFrom(_, _)
ReSubFrom(s, p) ==
    IF p > Len(s) THEN <<>>
    ELSE IF MatchesAt(s, p)
         THEN ReSubFrom(s, EndOfLine(s, FirstNonSpace(s, p)))
         ELSE <<s[p]>> \o ReSubFrom(s, p + 1)

re_sub(s) == ReSubFrom(s, 1)

RECURSIVE splitlines(_)
splitlines(s) ==
    IF s = <<>> THEN <<>>
    ELSE LET e == Min({k \in 1..Len(s) : s[k] \in LineBreaks} \cup {Len(s) + 1})
             n == IF e > Len(s) THEN e
                  ELSE IF s[e] = CR /\ e < Len(s) /\ s[e + 1] = NL THEN e + 2
                  ELSE e + 1
         IN  <<SubSeq(s, 1, e - 1)>> \o splitlines(SubSeq(s, n, Len(s)))

RECURSIVE join(_)
join(ls) ==
    IF ls = <<>> THEN <<>>
    ELSE IF Len(ls) = 1 THEN ls[1]
    ELSE ls[1] \o <<NL>> \o join(Tail(ls))

clean_code(code) ==
    join(SelectSeq(splitlines(re_sub(code)), LAMBDA line : ~IsBlank(line)))

(***************************************************************************)
(* difflib.SequenceMatcher(None, a, b).ratio()                             *)
(***************************************************************************)
\* Length of the common run that starts at a[i] and b[j].
RECURSIVE RunLen(_, _, _, _)
RunLen(a, b, i, j) ==
    IF i > Len(a) \/ j > Len(b) \/ a[i] # b[j] THEN 0
    ELSE 1 + RunLen(a, b, i + 1, j + 1)

\* The longest matching block; of those, the one starting earliest in a, and
\* of those, earliest in b.  <<i, j, k>> with k = 0 when nothing matches.
find_longest_match(a, b) ==
    LET cands == {c \in (1..Len(a)) \X (1..Len(b)) : a[c[1]] = b[c[2]]}
        Better(c, d) ==
            \/ RunLen(a, b, c[1], c[2]) > RunLen(a, b, d[1], d[2])
            \/ /\ RunLen(a, b, c[1], c[2]) = RunLen(a, b, d[1], d[2])
               /\ \/ c[1] < d[1]
                  \/ c[1] = d[1] /\ c[2] <= d[2]
    IN  IF cands = {} THEN <<1, 1, 0>>
        ELSE LET best == CHOOSE c \in cands : \A d \in cands : Better(c, d)
             IN  <<best[1], best[2], RunLen(a, b, best[1], best[2])>>

\* Sum of the sizes of get_matching_blocks(): the longest block, then the
\* pieces to its left and to its right.
RECURSIVE matches(_, _)
matches(a, b) ==
    IF a = <<>> \/ b = <<>> THEN 0
    ELSE LET m == find_longest_match(a, b)
             i == m[1]
             j == m[2]
             k == m[3]
         IN  IF k = 0 THEN 0
             ELSE k + matches(SubSeq(a, 1, i - 1), SubSeq(b, 1, j - 1))
                    + matches(SubSeq(a, i + k, Len(a)), SubSeq(b, j + k, Len(b)))

\* 2.0 * matches / length, 1.0 when both are empty.
ratio(a, b) ==
    IF Len(a) + Len(b) = 0 THEN <<1, 1>>
    ELSE <<2 * matches(a, b), Len(a) + Len(b)>>

\* calculate_similarity without the test for empty cleaned code
calculate_similarity_no_skip(code1, code2) ==
    ratio(clean_code(code1), clean_code(code2))

calculate_similarity(code1, code2) ==
    LET cleaned_code1 == clean_code(code1)
        cleaned_code2 == clean_code(code2)
    IN  IF IsBlank(cleaned_code1) \/ IsBlank(cleaned_code2)
        THEN <<0, 1>>
        ELSE ratio(cleaned_code1, cleaned_code2)

(***************************************************************************)
(* Comparisons of a ratio r = <<numerator, denominator>> with n/d.         *)
(***************************************************************************)
Ge(r, n, d) == r[1] * d >= n * r[2]
Lt(r, n, d) == r[1] * d < n * r[2]
Le(r, n, d) == r[1] * d <= n * r[2]

\* The text of f"{similarity:.2%}" as its digits: "87.50%" is 8750
\* (hundredths of a percent, rounded half to even).
Percent(r) ==
    LET q   == (r[1] * 10000) \div r[2]
        rem == (r[1] * 10000) % r[2]
    IN  IF 2 * rem > r[2] \/ (2 * rem = r[2] /\ q % 2 = 1) THEN q + 1 ELSE q

(***************************************************************************)
(* The files the user can select, and the selections of the file dialog.   *)
(***************************************************************************)
PathXA == <<"x", "a.py">>
PathYA == <<"y", "a.py">>
PathB  == <<"b.py">>

\* The text of each file when the tool is started.
FileText(path) ==
    CASE path = PathXA ->
           <<"x", "=", "1", "2", NL, SP, NL, "x", "=", "1", "3", NL>>
      [] path = PathYA ->
           <<"x", "=", "1", NL, "x", "=", "1", NL, "x", "=", "1", "2">>
      [] path = PathB ->
           <<"#", "c", NL, "i", "m", "p", "o", "r", "t", SP, "a", NL,
             "x", "=", "1", NL, "x", "=", "2", NL>>

\* What askopenfilenames can return (an empty selection only shows a warning).
Selections == {<<PathXA, PathYA>>, <<PathB>>}

\* Values of the Scale widget used as inputs: from 10 to 100 in steps of 10.
SliderValues == {10, 70, 100}

basename(path) == path[Len(path)]

Paths == {PathXA, PathYA, PathB}

\* The text of each file now (save_modified_code rewrites files).
VARIABLE disk

load_code_from_files(file_paths) ==
    [k \in 1..Len(file_paths) |->
        <<basename(file_paths[k]), splitlines(disk[file_paths[k]])>>]

(***************************************************************************)
(* classify_clone                                                          *)
(***************************************************************************)
CloneType(similarity) ==
    IF Ge(similarity, 99, 100) /\ Le(similarity, 1, 1) THEN "Type 1"
    ELSE IF Ge(similarity, 8, 10) /\ Lt(similarity, 1, 1) THEN "Type 2"
    ELSE IF Ge(similarity, 7, 10) /\ Lt(similarity, 8, 10) THEN "Type 3"
    ELSE "None"

\* the tuple with the loop indices instead of the line numbers
CloneRecord_zero_based(type, line1, line2, similarity, file_name) ==
    <<type, line1, line2, Percent(similarity), file_name>>

\* The tuple appended to clone_results.
CloneRecord(type, line1, line2, similarity, file_name) ==
    <<type, line1 + 1, line2 + 1, Percent(similarity), file_name>>

\* The records classify_clone appends: none or one.
classify_clone(file_name, line1, line2, similarity) ==
    IF line1 >= line2 THEN <<>>
    ELSE IF CloneType(similarity) = "None" THEN <<>>
    ELSE <<CloneRecord(CloneType(similarity), line1, line2, similarity, file_name)>>

\* the test turned round: a pair is kept when it does not exceed the threshold
detect_pair_below(file_name, i, j, sim, threshold) ==
    IF Le(sim, threshold, 100)
    THEN classify_clone(file_name, i, j, sim)
    ELSE <<>>

\* The body of the inner loop for a pair of similarity sim: the test against
\* the threshold (percent), then classify_clone.
detect_pair(file_name, i, j, sim, threshold) ==
    IF Ge(sim, threshold, 100)
    THEN classify_clone(file_name, i, j, sim)
    ELSE <<>>

(***************************************************************************)
(* The nested loops of detect_clones_with_sensitivity.  A position is      *)
(* <<u, i, j>>: unit u (from 1), line indices i and j (from 0, as          *)
(* enumerate gives them).                                                  *)
(***************************************************************************)
Done == <<0, 0, 0>>

\* No counter read is pending.
NoLoad == <<"None", 0>>

NumLines(code_files, u) == Len(code_files[u][2])

\* The first iteration at or after p that passes "if i >= j: continue".
RECURSIVE Seek(_, _)
Seek(code_files, p) ==
    IF p = Done THEN Done
    ELSE LET u == p[1]
             i == p[2]
             j == p[3]
             n == NumLines(code_files, u)
         IN  IF i >= n
             THEN IF u < Len(code_files) THEN Seek(code_files, <<u + 1, 0, 0>>)
                  ELSE Done
             ELSE IF j >= n THEN Seek(code_files, <<u, i + 1, 0>>)
             ELSE IF i >= j THEN Seek(code_files, <<u, i, j + 1>>)
             ELSE p

FirstPair(code_files) ==
    IF code_files = <<>> THEN Done ELSE Seek(code_files, <<1, 0, 0>>)

NextPair(code_files, p) == Seek(code_files, <<p[1], p[2], p[3] + 1>>)

\* The lines of the files above.
FileLines ==
    UNION {{splitlines(FileText(path))[k] : k \in 1..Len(splitlines(FileText(path)))} :
           path \in {PathXA, PathYA, PathB}}

\* calculate_similarity(line1, line2) of every two of these lines, computed once.
LineSimilarity ==
    [line1 \in FileLines, line2 \in FileLines |-> calculate_similarity(line1, line2)]

\* similarity of the pair at position p
PairSimilarity(code_files, p) ==
    LET line1 == code_files[p[1]][2][p[2] + 1]
        line2 == code_files[p[1]][2][p[3] + 1]
    IN  IF line1 \in FileLines /\ line2 \in FileLines
        THEN LineSimilarity[line1, line2]
        ELSE calculate_similarity(line1, line2)

(***************************************************************************)
(* File names.  The paths above are absolute; a bare name is looked up in  *)
(* the directory the tool was started in.                                  *)
(***************************************************************************)
\* os.getcwd()
CurrentDir == <<"x">>

RECURSIVE PathString(_)
PathString(path) ==
    IF path = <<>> THEN "" ELSE "/" \o Head(path) \o PathString(Tail(path))

\* os.path.abspath of a bare file name
abspath(file_name) == PathString(CurrentDir \o <<file_name>>)

NoFile == <<>>

\* The file that open(name) and os.path.exists(name) find, NoFile if none.
FileOf(name) ==
    IF \E path \in Paths : PathString(path) = name
    THEN CHOOSE path \in Paths : PathString(path) = name
    ELSE IF CurrentDir \o <<name>> \in Paths THEN CurrentDir \o <<name>>
    ELSE NoFile

(***************************************************************************)
(* Text of files and of the editor.                                        *)
(***************************************************************************)
\* file.readlines(): the lines with their "\n"
RECURSIVE readlines(_)
readlines(text) ==
    IF text = <<>> THEN <<>>
    ELSE LET e == Min({k \in 1..Len(text) : text[k] = NL} \cup {Len(text)})
         IN  <<SubSeq(text, 1, e)>> \o readlines(SubSeq(text, e + 1, Len(text)))

\* "".join(lines), file.writelines(lines)
RECURSIVE concat(_)
concat(lines) ==
    IF lines = <<>> THEN <<>> ELSE Head(lines) \o concat(Tail(lines))

\* str.strip()
strip(text) ==
    LET kept == {k \in 1..Len(text) : text[k] \notin Whitespace}
    IN  IF kept = {} THEN <<>>
        ELSE SubSeq(text, Min(kept), CHOOSE k \in kept : \A m \in kept : m <= k)

\* lines[start:stop] = [item], with the indices of a slice clamped as Python
\* does (a negative start counts from the end)
SliceAssign(lines, start, stop, item) ==
    LET n  == Len(lines)
        lo == IF start < 0 THEN (IF n + start < 0 THEN 0 ELSE n + start)
              ELSE IF start > n THEN n ELSE start
        up == IF stop < 0 THEN (IF n + stop < 0 THEN 0 ELSE n + stop)
              ELSE IF stop > n THEN n ELSE stop
        hi == IF up < lo THEN lo ELSE up
    IN  SubSeq(lines, 1, lo) \o <<item>> \o SubSeq(lines, hi + 1, n)

\* lines[start:stop]
Slice(lines, start, stop) ==
    LET n  == Len(lines)
        lo == IF start < 0 THEN (IF n + start < 0 THEN 0 ELSE n + start)
              ELSE IF start > n THEN n ELSE start
        up == IF stop < 0 THEN (IF n + stop < 0 THEN 0 ELSE n + stop)
              ELSE IF stop > n THEN n ELSE stop
    IN  SubSeq(lines, lo + 1, up)

(***************************************************************************)
(* The CSV report.  A file is its sequence of rows, a row its sequence of  *)
(* fields as csv.writer writes them and csv.reader returns them: strings,  *)
(* numbers written in decimal.  The similarity text stays the code of      *)
(* Percent.                                                                *)
(***************************************************************************)
\* str(n) of a line number
str(n) == ToString(n)

\* Line numbers that occur in reports.
LineNumbers == 0..9

\* The number a field of digits evaluates to.
int(field) == CHOOSE n \in LineNumbers : str(n) = field

Header ==
    <<"Clone Type", "Line 1", "Line 2", "Similarity", "File Path", "Recommendations">>

Recommendation(clone_type, line1, line2, full_path) ==
    LET at == " at lines " \o str(line1) \o " and " \o str(line2) \o "."
    IN  CASE clone_type = "Type 1" ->
               "Consider removing exact duplicates in " \o full_path \o at
          [] clone_type = "Type 2" ->
               "Rename variables in " \o full_path \o " to avoid redundancy" \o at
          [] clone_type = "Type 3" ->
               "Consolidate similar code in " \o full_path \o " found" \o at
          [] OTHER -> "No recommendation available."

\* The row save_report_as_csv writes for a record.
ReportRow(clone) ==
    LET full_path == abspath(clone[5])
    IN  <<clone[1], str(clone[2]), str(clone[3]), clone[4], full_path,
          Recommendation(clone[1], clone[2], clone[3], full_path)>>

\* The rows save_report_as_csv writes.
ReportRows(results, exact, renamed, modified) ==
    <<Header>>
    \o [k \in 1..Len(results) |-> ReportRow(results[k])]
    \o << <<>>, <<"Metrics">>,
          <<"Total Exact Clones", str(exact)>>,
          <<"Total Renamed Clones", str(renamed)>>,
          <<"Total Modified Clones", str(modified)>> >>

\* The rows save_marked_clones writes.
MarkedRows(marked) ==
    << <<"Clone Type", "File", "Line Range", "Similarity">> >>
    \o [k \in 1..Len(marked) |->
          <<marked[k].type, marked[k].file, "\"" \o marked[k].lines \o "\"",
            marked[k].similarity>>]

\* The item open_clone_report inserts for a row, as eval() reads it back:
\* the line numbers are written without quotes.
FormattedResult(row) == <<row[1], int(row[2]), int(row[3]), row[4], row[5]>>

\* the loop that ends at the first short row
RECURSIVE ImportRows_until_short(_)
ImportRows_until_short(rows) ==
    IF rows = <<>> THEN <<>>
    ELSE IF Len(Head(rows)) >= 5
         THEN <<FormattedResult(Head(rows))>> \o ImportRows_until_short(Tail(rows))
         ELSE <<>>

\* The loop of open_clone_report over the rows after the header.
RECURSIVE ImportRows(_)
ImportRows(rows) ==
    IF rows = <<>> THEN <<>>
    ELSE IF Len(Head(rows)) >= 5
         THEN <<FormattedResult(Head(rows))>> \o ImportRows(Tail(rows))
         ELSE ImportRows(Tail(rows))

\* A report of another session on b.py: a row in range, a note of one column,
\* a row that ends after the last line, a row that starts before the first.
ForeignReport ==
    <<Header,
      <<"Type 2", "3", "4", 8000, PathString(PathB), "">>,
      <<"checked">>,
      <<"Type 2", "3", "5", 8000, PathString(PathB), "">>,
      <<"Type 3", "0", "2", 7500, PathString(PathB), "">> >>

(***************************************************************************)
(* State.                                                                  *)
(***************************************************************************)
\* Runs started in one behaviour.
MaxRuns == 2

\* Moves of the slider in one behaviour.
MaxMoves == 1

\* Detection threads that can be alive at once.
Threads == {"t1", "t2"}

VARIABLES
    similarity_slider,      \* value of the Scale widget
    current_sensitivity,    \* global set by update_similarity
    selected_clone_type,    \* value of the clone type menu
    clone_results,          \* global list of record tuples
    total_exact_clones,
    total_renamed_clones,
    total_modified_clones,
    results_listbox,        \* items shown in the listbox
    pc,                     \* per thread: "idle", "detect", "store"
    code_files,             \* per thread: the loaded units
    similarity_threshold,   \* per thread: local read from the slider (percent)
    pos,                    \* per thread: loop position
    loaded,                 \* per thread: <<type, counter value read by "+= 1">>
    origin,                 \* history: the pair and run behind each record of clone_results
    runs,                   \* history: number of runs started
    moves                   \* history: number of slider moves

\* The functions applied on their own to chosen arguments.
VARIABLES
    text1,                  \* first argument: a text
    text2,                  \* second argument: a text
    cleaned,                \* clean_code(text1), then clean_code of that result
    score,                  \* calculate_similarity(text1, text2), once computed
    recorded                \* sensitivity |-> the records the pair adds at it

bench == <<text1, text2, cleaned, score, recorded>>

\* The rest of the session: windows, editor, report file, dialogs.
VARIABLES
    report,                 \* rows of the CSV file the report dialogs select
    pdf_report,             \* lines of the PDF file written
    marked_clones,          \* global list of the clones marked for refactoring
    details_windows,        \* the record shown by each open "Clone Details" window
    clone_editor,           \* text of the editor widget
    messagebox,             \* <<kind, title>> of the box the last operation showed
    clicks,                 \* history: operations of the user counted by MaxClicks
    saves,                  \* history: number of files rewritten
    errors                  \* history: number of error boxes shown

desk == <<disk, report, pdf_report, marked_clones, details_windows,
          clone_editor, messagebox, clicks, saves, errors>>

main == <<similarity_slider, current_sensitivity, selected_clone_type,
          clone_results, total_exact_clones, total_renamed_clones,
          total_modified_clones, results_listbox, pc, code_files,
          similarity_threshold, pos, loaded, origin, runs, moves>>

vars == <<main, bench, desk>>

gui == <<similarity_slider, current_sensitivity, selected_clone_type>>
counters == <<total_exact_clones, total_renamed_clones, total_modified_clones>>
locals == <<code_files, similarity_threshold, pos, loaded>>

\* No similarity computed yet.
NoValue == <<0, 0>>

\* Nothing applied, no arguments chosen.
BenchIdle ==
    /\ text1 = <<>>
    /\ text2 = <<>>
    /\ cleaned = <<>>
    /\ score = NoValue
    /\ recorded = <<>>

\* The globals of the module and the widgets after the window is built.
MainInit ==
    /\ similarity_slider = 70
    /\ current_sensitivity = 9
    /\ selected_clone_type = "All"
    /\ clone_results = <<>>
    /\ total_exact_clones = 0
    /\ total_renamed_clones = 0
    /\ total_modified_clones = 0
    /\ results_listbox = <<>>
    /\ pc = [t \in Threads |-> "idle"]
    /\ code_files = [t \in Threads |-> <<>>]
    /\ similarity_threshold = [t \in Threads |-> 0]
    /\ pos = [t \in Threads |-> Done]
    /\ loaded = [t \in Threads |-> NoLoad]
    /\ origin = <<>>
    /\ runs = 0
    /\ moves = 0

NoMessage == <<"none", "">>

\* The files as they are, nothing opened.
DeskStart ==
    /\ disk = [path \in Paths |-> FileText(path)]
    /\ pdf_report = <<>>
    /\ marked_clones = <<>>
    /\ details_windows = {}
    /\ clone_editor = <<>>
    /\ messagebox = NoMessage
    /\ clicks = 0
    /\ saves = 0
    /\ errors = 0

\* The report file is the report of an earlier session.
DeskInit == DeskStart /\ report = ForeignReport

Init == MainInit /\ BenchIdle /\ DeskInit

(***************************************************************************)
(* Listbox refreshes.                                                      *)
(***************************************************************************)
\* display_clone_results: the records of the selected type
DisplayedResults(results, selected_type) ==
    SelectSeq(results, LAMBDA r : selected_type = "All" \/ r[1] = selected_type)

\* apply_filters: by type and by the slider value (percent)
FilteredResults(results, selected_type, threshold) ==
    SelectSeq(results, LAMBDA r :
        /\ selected_type = "All" \/ r[1] = selected_type
        /\ ~(r[4] < threshold * 100))

(***************************************************************************)
(* Detection threads.                                                      *)
(***************************************************************************)
\* The global counter of a clone type.
CounterOf(type) ==
    CASE type = "Type 1" -> total_exact_clones
      [] type = "Type 2" -> total_renamed_clones
      [] type = "Type 3" -> total_modified_clones

\* the threshold read from the slider again at each pair
PairThreshold_slider(t) == similarity_slider

\* The threshold a pair is tested against: the local of the run.
PairThreshold(t) == similarity_threshold[t]

\* The records the pair at pos[t] adds.
PairRecords(t) ==
    LET p == pos[t]
    IN  detect_pair(code_files[t][p[1]][1], p[2], p[3],
                    PairSimilarity(code_files[t], p), PairThreshold(t))

\* the records put at the front of the list
list_prepend(list, items) == items \o list

\* list.append of the records (none or one) at the end
list_append(list, items) == list \o items

\* run_clone_detection_in_thread, detect_clones up to the loops: the file
\* dialog, load_code_from_files, clone_results.clear(), similarity_slider.get()
StartRun(t, file_paths) ==
    /\ pc[t] = "idle"
    /\ runs < MaxRuns
    /\ runs' = runs + 1
    /\ UNCHANGED moves
    /\ code_files' = [code_files EXCEPT ![t] = load_code_from_files(file_paths)]
    /\ clone_results' = <<>>
    /\ origin' = <<>>
    /\ similarity_threshold' = [similarity_threshold EXCEPT ![t] = similarity_slider]
    /\ pos' = [pos EXCEPT ![t] = FirstPair(code_files'[t])]
    /\ pc' = [pc EXCEPT ![t] = "detect"]
    /\ UNCHANGED <<gui, counters, results_listbox, loaded>>
    /\ UNCHANGED <<bench, desk>>

\* One iteration of the inner loop: calculate_similarity, the threshold test,
\* classify_clone up to the read of the counter it increments.
Pair(t) ==
    /\ pc[t] = "detect"
    /\ pos[t] # Done
    /\ LET recs == PairRecords(t)
           p == pos[t]
           made == IF recs = <<>> THEN <<>>
                   ELSE <<[run |-> t, unit |-> p[1], i |-> p[2], j |-> p[3],
                           nlines |-> NumLines(code_files[t], p[1]),
                           similarity |-> PairSimilarity(code_files[t], p),
                           threshold |-> similarity_threshold[t],
                           slider |-> similarity_slider]>>
       IN  /\ clone_results' = list_append(clone_results, recs)
           /\ origin' = list_append(origin, made)
           /\ IF recs = <<>>
              THEN /\ pos' = [pos EXCEPT ![t] = NextPair(code_files[t], p)]
                   /\ UNCHANGED <<pc, loaded>>
              ELSE /\ pc' = [pc EXCEPT ![t] = "store"]
                   /\ loaded' = [loaded EXCEPT ![t] =
                         <<recs[1][1], CounterOf(recs[1][1])>>]
                   /\ UNCHANGED pos
    /\ UNCHANGED <<gui, counters, results_listbox, code_files,
                   similarity_threshold, runs, moves>>
    /\ UNCHANGED <<bench, desk>>

\* The write of "+= 1" with the value read, and on to the next iteration.
Store(t) ==
    /\ pc[t] = "store"
    /\ total_exact_clones' =
         IF loaded[t][1] = "Type 1" THEN loaded[t][2] + 1 ELSE total_exact_clones
    /\ total_renamed_clones' =
         IF loaded[t][1] = "Type 2" THEN loaded[t][2] + 1 ELSE total_renamed_clones
    /\ total_modified_clones' =
         IF loaded[t][1] = "Type 3" THEN loaded[t][2] + 1 ELSE total_modified_clones
    /\ loaded' = [loaded EXCEPT ![t] = NoLoad]
    /\ pos' = [pos EXCEPT ![t] = NextPair(code_files[t], pos[t])]
    /\ pc' = [pc EXCEPT ![t] = "detect"]
    /\ UNCHANGED <<gui, clone_results, origin, results_listbox, code_files,
                   similarity_threshold, runs, moves>>
    /\ UNCHANGED <<bench, desk>>

\* The loops are over: display_clone_results(), and the thread ends.
Display(t) ==
    /\ pc[t] = "detect"
    /\ pos[t] = Done
    /\ results_listbox' = DisplayedResults(clone_results, selected_clone_type)
    /\ pc' = [pc EXCEPT ![t] = "idle"]
    /\ code_files' = [code_files EXCEPT ![t] = <<>>]
    /\ similarity_threshold' = [similarity_threshold EXCEPT ![t] = 0]
    /\ UNCHANGED <<gui, clone_results, origin, counters, pos, loaded, runs, moves>>
    /\ UNCHANGED <<bench, desk>>

(***************************************************************************)
(* The user's actions on the main window.                                  *)
(***************************************************************************)
\* The Scale is moved to another value: its command calls apply_filters().
MoveSlider(v) ==
    /\ v # similarity_slider
    /\ moves < MaxMoves
    /\ moves' = moves + 1
    /\ similarity_slider' = v
    /\ results_listbox' = FilteredResults(clone_results, selected_clone_type, v)
    /\ UNCHANGED <<current_sensitivity, selected_clone_type, clone_results, origin,
                   counters, pc, locals, runs>>
    /\ UNCHANGED <<bench, desk>>

\* "Apply Detection Similarity" (pressed with the value already applied, it
\* changes nothing)
update_similarity ==
    /\ current_sensitivity # similarity_slider
    /\ current_sensitivity' = similarity_slider
    /\ UNCHANGED <<similarity_slider, selected_clone_type, clone_results, origin,
                   counters, results_listbox, pc, locals, runs, moves>>
    /\ UNCHANGED <<bench, desk>>

Next ==
    \/ \E t \in Threads : \E file_paths \in Selections : StartRun(t, file_paths)
    \/ \E t \in Threads : Pair(t)
    \/ \E t \in Threads : Store(t)
    \/ \E t \in Threads : Display(t)
    \/ \E v \in SliderValues : MoveSlider(v)
    \/ update_similarity

Spec == Init /\ [][Next]_vars

(***************************************************************************)
(* The functions on their own: clean_code, calculate_similarity and the    *)
(* body of the detection loop, applied to arguments chosen at the start.   *)
(***************************************************************************)
\* Longest argument text.
MaxLen == 3

\* Characters of the argument texts: two letters, the comment marker and a
\* line boundary that is not "\n".
Alphabet == {"x", "y", "#", CR}

Texts == UNION {[1..n -> Alphabet] : n \in 0..MaxLen}

FunctionInit ==
    /\ MainInit
    /\ DeskInit
    /\ text1 \in Texts
    /\ text2 \in Texts
    /\ cleaned = <<>>
    /\ score = NoValue
    /\ recorded = <<>>

\* clean_code of text1, and then of the result of the call before.
ApplyCleanCode ==
    /\ Len(cleaned) < 2
    /\ cleaned' = Append(cleaned,
                         clean_code(IF cleaned = <<>> THEN text1
                                    ELSE cleaned[Len(cleaned)]))
    /\ UNCHANGED <<main, desk, text1, text2, score, recorded>>

ApplyCalculateSimilarity ==
    /\ score = NoValue
    /\ score' = calculate_similarity(text1, text2)
    /\ UNCHANGED <<main, desk, text1, text2, cleaned, recorded>>

\* The loop body for lines 1 and 2 of a unit, of the similarity computed, with
\* the slider at s when the run started.
ApplyDetect(s) ==
    /\ score # NoValue
    /\ s \notin DOMAIN recorded
    /\ recorded' = recorded @@ (s :> detect_pair(basename(PathB), 0, 1, score, s))
    /\ UNCHANGED <<main, desk, text1, text2, cleaned, score>>

FunctionNext ==
    \/ ApplyCleanCode
    \/ ApplyCalculateSimilarity
    \/ \E s \in SliderValues : ApplyDetect(s)

FunctionSpec == FunctionInit /\ [][FunctionNext]_vars

(***************************************************************************)
(* The session of one user: detection runs one at a time, the slider, and  *)
(* the buttons and menu entries on the results: details and marking,       *)
(* reports, the editor.  item is the index of the selected listbox item,   *)
(* 0 when nothing is selected.                                             *)
(***************************************************************************)
\* Operations on the results in one behaviour.
MaxClicks == 3

\* Files rewritten in one behaviour.
MaxSaves == 1

\* Runs started in one behaviour of the session.
MaxSessionRuns == 1

Click ==
    /\ clicks < MaxClicks
    /\ clicks' = clicks + 1

Selectable == {0} \cup DOMAIN results_listbox

NoSelection ==
    /\ messagebox' = <<"warning", "No Selection">>
    /\ UNCHANGED <<main, bench, disk, report, pdf_report, marked_clones,
                   details_windows, clone_editor, saves, errors>>

\* The user starts a run when no run is in progress.
SessionRun(file_paths) ==
    /\ \A t \in Threads : pc[t] = "idle"
    /\ runs < MaxSessionRuns
    /\ StartRun("t1", file_paths)

\* view_clone_details: a window that keeps the fields of the selected item.
view_clone_details(item) ==
    /\ Click
    /\ IF item = 0 THEN NoSelection
       ELSE /\ details_windows' = details_windows \cup {results_listbox[item]}
            /\ messagebox' = NoMessage
            /\ UNCHANGED <<main, bench, disk, report, pdf_report, marked_clones,
                           clone_editor, saves, errors>>

\* The dictionary mark_for_refactoring builds from the fields of its window.
MarkedClone(clone) ==
    [type |-> clone[1], file |-> clone[5],
     lines |-> str(clone[2]) \o " - " \o str(clone[3]),
     similarity |-> clone[4]]

\* the entry added only when no equal entry is in the list
marked_append_new(marked, marked_clone) ==
    IF \E k \in DOMAIN marked : marked[k] = marked_clone THEN marked
    ELSE Append(marked, marked_clone)

\* marked_clones.append(marked_clone)
marked_append(marked, marked_clone) == Append(marked, marked_clone)

\* "Mark for Refactoring" in an open details window.
mark_for_refactoring(clone) ==
    /\ Click
    /\ clone \in details_windows
    /\ marked_clones' = marked_append(marked_clones, MarkedClone(clone))
    /\ messagebox' = <<"info", "Marked">>
    /\ UNCHANGED <<main, bench, disk, report, pdf_report, details_windows,
                   clone_editor, saves, errors>>

\* view_marked_clones: a message when the list is empty, a window otherwise.
view_marked_clones ==
    /\ Click
    /\ messagebox' = IF marked_clones = <<>> THEN <<"info", "No Marked Clones">>
                     ELSE NoMessage
    /\ UNCHANGED <<main, bench, disk, report, pdf_report, marked_clones,
                   details_windows, clone_editor, saves, errors>>

\* save_marked_clones, written to the file the report dialogs select.
save_marked_clones ==
    /\ Click
    /\ IF marked_clones = <<>>
       THEN /\ messagebox' = <<"info", "No Marked Clones">>
            /\ UNCHANGED report
       ELSE /\ report' = MarkedRows(marked_clones)
            /\ messagebox' = <<"info", "Success">>
    /\ UNCHANGED <<main, bench, disk, pdf_report, marked_clones,
                   details_windows, clone_editor, saves, errors>>

save_report_as_csv ==
    /\ Click
    /\ report' = ReportRows(clone_results, total_exact_clones,
                            total_renamed_clones, total_modified_clones)
    /\ messagebox' = <<"info", "Save Report">>
    /\ UNCHANGED <<main, bench, disk, pdf_report, marked_clones,
                   details_windows, clone_editor, saves, errors>>

\* save_report_as_pdf: the title, then the fields of one line per record.
save_report_as_pdf ==
    /\ Click
    /\ pdf_report' = <<"Code Clone Detection Report">> \o
                     [k \in 1..Len(clone_results) |->
                        <<clone_results[k][1], clone_results[k][5],
                          clone_results[k][2], clone_results[k][3],
                          clone_results[k][4]>>]
    /\ messagebox' = <<"info", "Save Report">>
    /\ UNCHANGED <<main, bench, disk, report, marked_clones,
                   details_windows, clone_editor, saves, errors>>

\* open_clone_report: next(reader) fails on a file without rows, before the
\* listbox is cleared; otherwise the listbox is refilled from the rows.
open_clone_report ==
    /\ Click
    /\ IF report = <<>>
       THEN /\ messagebox' = <<"error", "Error">>
            /\ errors' = errors + 1
            /\ UNCHANGED results_listbox
       ELSE /\ results_listbox' = ImportRows(Tail(report))
            /\ messagebox' = <<"info", "Success">>
            /\ UNCHANGED errors
    /\ UNCHANGED <<gui, clone_results, origin, counters, pc, locals, runs, moves,
                   bench, disk, report, pdf_report, marked_clones,
                   details_windows, clone_editor, saves>>

\* the test that looks at the last line only
OutOfRange_last_only(line1, line2, n) == line2 > n

\* if line1 < 1 or line2 > len(lines)
OutOfRange(line1, line2, n) == line1 < 1 \/ line2 > n

\* load_clone_for_editing; located is the answer to "Locate Missing File"
\* (NoFile: the dialog is cancelled), asked when the named file is not there.
load_clone_for_editing(item, located) ==
    /\ Click
    /\ IF item = 0 THEN NoSelection
       ELSE LET clone == results_listbox[item]
                named == FileOf(clone[5])
                file  == IF named # NoFile THEN named ELSE located
            IN  /\ named # NoFile => located = NoFile
                /\ IF file = NoFile
                   THEN /\ messagebox' = <<"warning", "File Missing">>
                        /\ UNCHANGED <<clone_editor, errors>>
                   ELSE LET lines == readlines(disk[file])
                        IN  IF OutOfRange(clone[2], clone[3], Len(lines))
                            THEN /\ messagebox' = <<"error", "Error">>
                                 /\ errors' = errors + 1
                                 /\ UNCHANGED clone_editor
                            ELSE /\ clone_editor' =
                                      concat(Slice(lines, clone[2] - 1, clone[3]))
                                 /\ messagebox' = NoMessage
                                 /\ UNCHANGED errors
                /\ UNCHANGED <<main, bench, disk, report, pdf_report,
                               marked_clones, details_windows, saves>>

\* save_modified_code: the lines of the selected item are replaced by the
\* text of the editor (get() ends it with "\n").  A missing file ends the
\* handler with the exception of open().  The run it starts afterwards is a
\* thread of its own that begins with the file dialog: SessionRun.
save_modified_code(item) ==
    /\ Click
    /\ IF item = 0 THEN NoSelection
       ELSE LET clone == results_listbox[item]
                file  == FileOf(clone[5])
                modified_code == strip(clone_editor \o <<NL>>)
            IN  IF file = NoFile
                THEN /\ messagebox' = NoMessage
                     /\ UNCHANGED <<main, bench, disk, report, pdf_report,
                                    marked_clones, details_windows, clone_editor,
                                    saves, errors>>
                ELSE /\ saves < MaxSaves
                     /\ saves' = saves + 1
                     /\ disk' = [disk EXCEPT ![file] =
                           concat(SliceAssign(readlines(disk[file]), clone[2] - 1,
                                              clone[3], modified_code \o <<NL>>))]
                     /\ messagebox' = <<"info", "Save Changes">>
                     /\ UNCHANGED <<main, bench, report, pdf_report, marked_clones,
                                    details_windows, clone_editor, errors>>

SessionNext ==
    \/ \E file_paths \in Selections : SessionRun(file_paths)
    \/ \E t \in Threads : Pair(t)
    \/ \E t \in Threads : Store(t)
    \/ \E t \in Threads : Display(t)
    \/ \E v \in SliderValues : MoveSlider(v)
    \/ \E item \in Selectable : view_clone_details(item)
    \/ \E clone \in details_windows : mark_for_refactoring(clone)
    \/ view_marked_clones
    \/ save_marked_clones
    \/ save_report_as_csv
    \/ save_report_as_pdf
    \/ open_clone_report
    \/ \E item \in Selectable : \E located \in Paths \cup {NoFile} :
          load_clone_for_editing(item, located)
    \/ \E item \in Selectable : save_modified_code(item)

SessionSpec == Init /\ [][SessionNext]_vars

(***************************************************************************)
(* Import of a report file of any rows.                                    *)
(***************************************************************************)
\* Rows after the header in a report file.
MaxRows == 3

\* Rows of 6 and of 5 columns, and the short rows of a report: blank,
\* "Metrics", a metrics row, and a row of 4 columns.
RowPool ==
    {<<"Type 1", "1", "2", 10000, PathString(PathXA), "">>,
     <<"Type 3", "1", "3", 7500, basename(PathXA)>>,
     <<>>,
     <<"Metrics">>,
     <<"Total Exact Clones", "1">>,
     <<"Type 2", "2", "3", 8571>>}

\* The report files: an empty file, or a header and up to MaxRows rows.
Reports ==
    {<<>>} \cup
    UNION {{<<Header>> \o rows : rows \in [1..n -> RowPool]} : n \in 0..MaxRows}

ImportInit ==
    /\ MainInit
    /\ BenchIdle
    /\ DeskStart
    /\ report \in Reports

ImportNext == open_clone_report

ImportSpec == ImportInit /\ [][ImportNext]_vars


(***************************************************************************)
(* Properties.                                                             *)
(***************************************************************************)
\* Thread t takes its Pair step.
PairStep(t) ==
    /\ pc[t] = "detect"
    /\ pos[t] # Done
    /\ pc'[t] # pc[t] \/ pos'[t] # pos[t]

CurrentSimilarity(t) == PairSimilarity(code_files[t], pos[t])

CurrentFile(t) == code_files[t][pos[t][1]][1]

IsPrefix(a, b) == Len(a) <= Len(b) /\ SubSeq(b, 1, Len(a)) = a

\* The history entries of the records appended by the run of thread t.
OwnOrigin(org, t) == SelectSeq(org, LAMBDA o : o.run = t)

\* The lines that are empty after clean_code.
EmptyAfterCleaning == {line \in FileLines : IsBlank(clean_code(line))}

\* The tier of a similarity under cutoffs 1.0*s, 0.9*s, 0.7*s, s in percent.
ScaledType(similarity, s) ==
    IF Ge(similarity, 10 * s, 1000) THEN "Type 1"
    ELSE IF Ge(similarity, 9 * s, 1000) THEN "Type 2"
    ELSE IF Ge(similarity, 7 * s, 1000) THEN "Type 3"
    ELSE "None"

\* C1: for every similarity and sensitivity s, the pair is recorded with the
\* highest tier whose scaled cutoff it meets (Type1 at 1.0*s, Type2 at 0.9*s,
\* Type3 at 0.7*s), and not recorded below 0.7*s.
C1_ScaledTiers ==
    [][\A t \in Threads :
         PairStep(t) =>
           LET type == ScaledType(CurrentSimilarity(t), similarity_threshold[t])
           IN  clone_results' =
                 IF type = "None" THEN clone_results
                 ELSE Append(clone_results,
                             <<type, pos[t][2] + 1, pos[t][3] + 1,
                               Percent(CurrentSimilarity(t)), CurrentFile(t)>>)]_vars

\* C2: the three counters are reset at the start of a run: a run that starts
\* while no other run is in progress leaves them at 0, so that they count the
\* records of that run only.
C2_CountersResetAtRunStart ==
    [][\A t \in Threads :
         (/\ \A u \in Threads : pc[u] = "idle"
          /\ pc'[t] = "detect") =>
            counters' = <<0, 0, 0>>]_vars

\* C3: runs are serialized or isolated: no step removes or reorders the
\* records that a run still in progress has appended to the result list
\* (a second run started meanwhile does not clear them).
C3_RunsDoNotInterfere ==
    [][\A t \in Threads :
         (pc[t] # "idle" /\ pc'[t] # "idle") =>
            IsPrefix(OwnOrigin(origin, t), OwnOrigin(origin', t))]_vars

\* C4: the threshold of a run does not change while the run is in progress,
\* and every pair of the run is tested against it, whatever the slider shows.
C4_SensitivityHeldFixed ==
    [][\A t \in Threads :
         /\ (pc[t] # "idle" /\ pc'[t] # "idle") =>
                similarity_threshold'[t] = similarity_threshold[t]
         /\ PairStep(t) =>
                clone_results' = clone_results \o
                    (IF Ge(CurrentSimilarity(t), similarity_threshold[t], 100)
                     THEN classify_clone(CurrentFile(t), pos[t][2], pos[t][3],
                                         CurrentSimilarity(t))
                     ELSE <<>>)]_vars

\* C4 witness: a record appended by a run still in progress after the slider
\* was moved to a value the record's similarity does not reach.
C4_SliderMovedMidRun ==
    \E k \in DOMAIN origin :
        /\ pc[origin[k].run] # "idle"
        /\ origin[k].slider # origin[k].threshold
        /\ ~Ge(origin[k].similarity, origin[k].slider, 100)

\* C5: once a sensitivity has been applied, a run that starts uses the value
\* of the last apply, whatever the slider shows.
C5_RunUsesAppliedSensitivity ==
    [][\A t \in Threads :
         (pc[t] = "idle" /\ pc'[t] = "detect" /\ current_sensitivity \in SliderValues) =>
            similarity_threshold'[t] = current_sensitivity]_vars

\* C6: no two records of one run have the same (unit identifier, line_a, line_b).
C6_NoDuplicateKeys ==
    \A p, q \in DOMAIN clone_results :
        (p # q /\ origin[p].run = origin[q].run) =>
            <<clone_results[p][5], clone_results[p][2], clone_results[p][3]>> #
            <<clone_results[q][5], clone_results[q][2], clone_results[q][3]>>

\* C7: every record of the result list has
\* 1 <= line_a < line_b <= number of lines of its unit.
C7_LineNumbersInRange ==
    \A k \in DOMAIN clone_results :
        /\ 1 <= clone_results[k][2]
        /\ clone_results[k][2] < clone_results[k][3]
        /\ clone_results[k][3] <= origin[k].nlines

\* C7 witness: a record from the first to the last line of a unit of 3 lines.
C7_RecordUpToLastLine ==
    \E k \in DOMAIN clone_results :
        /\ clone_results[k][2] = 1
        /\ clone_results[k][3] = 3
        /\ origin[k].nlines = 3

\* C8: of two records of one run, the earlier one has the lexicographically
\* smaller (unit position, line_a, line_b).
C8_OutputOrdered ==
    \A p, q \in DOMAIN clone_results :
        (p < q /\ origin[p].run = origin[q].run) =>
            \/ origin[p].unit < origin[q].unit
            \/ /\ origin[p].unit = origin[q].unit
               /\ \/ clone_results[p][2] < clone_results[q][2]
                  \/ /\ clone_results[p][2] = clone_results[q][2]
                     /\ clone_results[p][3] < clone_results[q][3]

\* C8 witness: a finished run that listed four records, from two units and,
\* within a unit, with different first and second lines.
C8_FullRunListed ==
    /\ \A t \in Threads : pc[t] = "idle"
    /\ Len(clone_results) = 4
    /\ \A k \in DOMAIN origin : origin[k].run = origin[1].run
    /\ origin[1].unit < origin[2].unit
    /\ clone_results[2][2] = clone_results[3][2]
    /\ clone_results[3][2] < clone_results[4][2]

\* C9: a pair with a line that is empty after cleaning adds no record and
\* starts no counter increment.
C9_NotComparableSkipped ==
    [][\A t \in Threads :
         (/\ PairStep(t)
          /\ \/ code_files[t][pos[t][1]][2][pos[t][2] + 1] \in EmptyAfterCleaning
             \/ code_files[t][pos[t][1]][2][pos[t][3] + 1] \in EmptyAfterCleaning) =>
            /\ clone_results' = clone_results
            /\ pc'[t] = "detect"
            /\ loaded' = loaded
            /\ counters' = counters]_vars

\* C9 witness: at the lowest sensitivity, a run has passed the pair of a
\* comment line and an import line and has recorded nothing.
C9_EmptyPairPassed ==
    \E t \in Threads :
        /\ pc[t] = "detect"
        /\ similarity_threshold[t] = 10
        /\ code_files[t] = load_code_from_files(<<PathB>>)
        /\ pos[t] = <<1, 0, 2>>
        /\ clone_results = <<>>
        /\ counters = <<0, 0, 0>>

\* C10: at sensitivity 0.7 every comparable pair with similarity in
\* [0.49, 0.7) is recorded as Type 3.
C10_LoweredSensitivityAddsType3 ==
    [][\A t \in Threads :
         (/\ PairStep(t)
          /\ similarity_threshold[t] = 70
          /\ Ge(CurrentSimilarity(t), 49, 100)
          /\ Lt(CurrentSimilarity(t), 7, 10)) =>
            clone_results' =
                Append(clone_results,
                       <<"Type 3", pos[t][2] + 1, pos[t][3] + 1,
                         Percent(CurrentSimilarity(t)), CurrentFile(t)>>)]_vars

\* C11: classification is monotone in the sensitivity: for s1 < s2 and one
\* similarity, a pair recorded at s2 is recorded at s1, and a pair recorded
\* as Type 1 at s2 is recorded as Type 1 at s1.
C11_MonotoneInSensitivity ==
    \A s1, s2 \in DOMAIN recorded :
        (s1 < s2 /\ recorded[s2] # <<>>) =>
            /\ recorded[s1] # <<>>
            /\ recorded[s2][1][1] = "Type 1" => recorded[s1][1][1] = "Type 1"

\* C11 witness: one pair recorded as Type 1 at each of the three sensitivities.
C11_Type1AtEverySensitivity ==
    /\ DOMAIN recorded = SliderValues
    /\ \A s \in SliderValues : recorded[s] # <<>> /\ recorded[s][1][1] = "Type 1"

\* Two ratios are the same number.
SameRatio(r, q) == r[1] * q[2] = q[1] * r[2]

\* C15: the similarity score is symmetric: for texts a and b that are not
\* empty after cleaning, the score of (a, b) equals the score of (b, a).
C15_SimilaritySymmetric ==
    (/\ score # NoValue
     /\ ~IsBlank(clean_code(text1))
     /\ ~IsBlank(clean_code(text2))) =>
        SameRatio(score, calculate_similarity(text2, text1))

\* C16: clean_code is idempotent, and no line of its result is blank or
\* matches the comment/import pattern.
C16_CleanCodeIdempotent ==
    /\ Len(cleaned) = 2 => cleaned[2] = cleaned[1]
    /\ Len(cleaned) >= 1 =>
          \A k \in 1..Len(splitlines(cleaned[1])) :
              /\ ~IsBlank(splitlines(cleaned[1])[k])
              /\ ~MatchesAt(splitlines(cleaned[1])[k], 1)

\* Thread t finishes the classification of its pair: the write of "+= 1".
ClassifyEnds(t) == pc[t] = "store" /\ pc'[t] = "detect"

\* The counters after one more clone of the given type.
CountersPlusOne(type) ==
    <<total_exact_clones + (IF type = "Type 1" THEN 1 ELSE 0),
      total_renamed_clones + (IF type = "Type 2" THEN 1 ELSE 0),
      total_modified_clones + (IF type = "Type 3" THEN 1 ELSE 0)>>

\* C17: classifying one pair appends at most one record; when it appends a
\* record of type T it raises the counter of T by exactly 1 and leaves the
\* other two counters alone; when it appends nothing no counter changes.
C17_OneRecordOneIncrement ==
    [][\A t \in Threads :
         /\ PairStep(t) =>
               \/ /\ clone_results' = clone_results
                  /\ pc'[t] = "detect"
                  /\ counters' = counters
               \/ /\ Len(clone_results') = Len(clone_results) + 1
                  /\ SubSeq(clone_results', 1, Len(clone_results)) = clone_results
                  /\ pc'[t] = "store"
                  /\ loaded'[t][1] = clone_results'[Len(clone_results')][1]
                  /\ counters' = counters
         /\ ClassifyEnds(t) => counters' = CountersPlusOne(loaded[t][1])]_vars

\* The user opens a report with "Open Clone Report" and it is read.
ImportStep ==
    /\ clicks' = clicks + 1
    /\ report' = report
    /\ messagebox' = <<"info", "Success">>

\* C12: exporting the records of a run to the CSV report and importing that
\* report gives back the same sequence of records: same length and order,
\* and for each record the same type, line_a, line_b, File and similarity
\* text (the metrics rows add no record).
C12_ReportRoundTrip ==
    [][(/\ ImportStep
        /\ report = ReportRows(clone_results, total_exact_clones,
                               total_renamed_clones, total_modified_clones)) =>
          /\ Len(results_listbox') = Len(clone_results)
          /\ \A k \in DOMAIN clone_results :
                \A field \in 1..5 :
                    results_listbox'[k][field] = clone_results[k][field]]_vars

\* The rows of at least 5 columns after the header, in file order.
LongRows(rows) == SelectSeq(Tail(rows), LAMBDA row : Len(row) >= 5)

\* C13: on import every row after the header with fewer than 5 columns is
\* skipped without an error and without ending the import: the rows of at
\* least 5 columns before and after it are all loaded, in file order.
C13_ShortRowsSkipped ==
    [][(clicks' = clicks + 1 /\ report # <<>>) =>
          /\ messagebox' = <<"info", "Success">>
          /\ results_listbox' =
                [k \in 1..Len(LongRows(report)) |->
                    FormattedResult(LongRows(report)[k])]]_vars

\* C13 witness: a report with a short row between two rows of at least 5
\* columns has been imported, and both are listed.
C13_ShortRowBetweenLoaded ==
    /\ clicks > 0
    /\ Len(report) = 4
    /\ Len(report[2]) >= 5
    /\ Len(report[3]) < 5
    /\ Len(report[4]) >= 5
    /\ results_listbox = <<FormattedResult(report[2]), FormattedResult(report[4])>>

\* "Mark for Refactoring" is pressed in a details window.
MarkStep ==
    /\ clicks' = clicks + 1
    /\ messagebox' = <<"info", "Marked">>

\* C14: the list of marked clones changes only by marking, which appends
\* exactly one entry at the end, also when an equal entry is in the list;
\* every other step (runs, filtering, import, exports, viewing) leaves the
\* list as it is.
C14_MarkedOnlyByMark ==
    [][IF MarkStep
       THEN \E clone \in details_windows :
               marked_clones' = Append(marked_clones, MarkedClone(clone))
       ELSE marked_clones' = marked_clones]_vars

\* C14 witness: the same record marked twice is in the list twice.
C14_SameRecordMarkedTwice ==
    /\ Len(marked_clones) = 2
    /\ marked_clones[1] = marked_clones[2]

\* Number of lines of a text: the "\n" in it, and a last line without one.
LineCount(text) ==
    Cardinality({k \in 1..Len(text) : text[k] = NL})
        + (IF text # <<>> /\ text[Len(text)] # NL THEN 1 ELSE 0)

\* C18: a load for editing of an item whose lines are out of the range of the
\* file as it is now (line_a < 1 or line_b > number of lines) shows an error
\* and leaves the editor and the file unchanged; a load of an item in range
\* puts its lines in the editor, also after such an error.
C18_OutOfRangeLoadReported ==
    [][\A item \in DOMAIN results_listbox :
         \A located \in Paths \cup {NoFile} :
           load_clone_for_editing(item, located) =>
             LET clone == results_listbox[item]
                 file  == IF FileOf(clone[5]) # NoFile THEN FileOf(clone[5])
                          ELSE located
             IN  file # NoFile =>
                   IF clone[2] < 1 \/ clone[3] > LineCount(disk[file])
                   THEN /\ messagebox' = <<"error", "Error">>
                        /\ errors' = errors + 1
                        /\ clone_editor' = clone_editor
                        /\ disk' = disk
                   ELSE /\ messagebox' = NoMessage
                        /\ clone_editor' =
                             concat(SubSeq(readlines(disk[file]), clone[2], clone[3]))
                        /\ disk' = disk]_vars

\* C18 witness: a report was opened, a load of an item out of range showed
\* the error, and the load after it put the lines of an item in the editor.
C18_LoadAfterError ==
    /\ clicks = 3
    /\ errors = 1
    /\ messagebox = NoMessage
    /\ clone_editor # <<>>
=============================================================================
